---- MODULE Spec2Model ----
(***************************************************************************)
(* The course-creation form of frontend/src/components/                    *)
(* course-creation-form.tsx as a state machine.                            *)
(*                                                                         *)
(* The component configures and drives react-hook-form: useForm with a     *)
(* zod resolver and default values (lines 69-72), the isSubmitting flag    *)
(* read at render (lines 75-78), the submit handler onSubmit (lines        *)
(* 80-91), the form's onSubmit wiring handleSubmitForm(handleSubmit(       *)
(* onSubmit), resolveError) (line 96), the field bindings (lines 104-378)  *)
(* and the submit button (lines 385-391).                                  *)
(*                                                                         *)
(* One submission is the run of handleSubmit(onSubmit) for one submit      *)
(* event.  It is asynchronous: it awaits the resolver and then the submit  *)
(* handler, so it is modelled by the synchronous segments between its      *)
(* awaits, and segments of different submissions may interleave.           *)
(*   StartSubmission  the event: isSubmitting := true, resolver invoked     *)
(*   Resolve          the resolver's result arrives; on Valid the submit    *)
(*                    handler runs (it is synchronous); on Invalid, or if   *)
(*                    the handler throws, the flag is reset at once         *)
(*   Settle           the awaited handler has returned: the flag is reset   *)
(*   Catch            a thrown failure reaches handleSubmitForm's catch     *)
(* A write after a finished submission validates the written field again;  *)
(* the resolver is awaited there too, so the write is two segments:        *)
(*   Write            the value changes, the resolver is invoked            *)
(*   Revalidate       the resolver's result arrives: the field's error is   *)
(*                    set or cleared                                        *)
(* A render follows every change of the form state, so the value of        *)
(* isSubmitting that a handler closes over, and that disables the button,  *)
(* is the value the flag had when the event was dispatched.                *)
(***************************************************************************)
EXTENDS Integers, Sequences, FiniteSets, TLC

\* ---------------------------------------------------------------- bounds
\* Number of field writes in one behaviour.
MaxWrites == 1
\* Number of submit events that reach the form in one behaviour.
MaxSubmits == 2

\* ---------------------------------------------------------------- fields
NAME == "name"
DESCRIPTION == "description"
MILESTONE_ALIAS == "milestoneAlias"

StringFields == {NAME, DESCRIPTION, MILESTONE_ALIAS}

BooleanFields ==
    {"isPublished", "showGroupMembersNames", "allowStudentsToModifyGroupName",
     "allowStudentsToCreateGroups", "allowStudentsToDeleteGroups",
     "allowStudentsToJoinGroups", "allowStudentsToLeaveGroups",
     "allowStudentsToAddOrRemoveGroupMembers"}

Fields == StringFields \cup BooleanFields

\* A text is a sequence of characters; " " stands for whitespace, "a" for
\* any other character.
Chars == {" ", "a"}

\* The texts typed into a string field: empty, whitespace only, plain,
\* padded on both sides, and with whitespace inside.
Texts ==
    {<<>>, <<" ", " ">>, <<"a">>, <<" ", "a", " ">>, <<"a", " ", "a">>}

FieldDomain(f) == IF f \in StringFields THEN Texts ELSE BOOLEAN

DEFAULT_VALUES == [f \in Fields |-> IF f \in StringFields THEN <<>> ELSE FALSE]

\* ---------------------------------------------------------------- schema
IsWhitespace(c) == c = " "

RECURSIVE TrimStart(_)
TrimStart(s) ==
    IF s # <<>> /\ IsWhitespace(Head(s)) THEN TrimStart(Tail(s)) ELSE s

RECURSIVE TrimEnd(_)
TrimEnd(s) ==
    IF s # <<>> /\ IsWhitespace(s[Len(s)])
    THEN TrimEnd(SubSeq(s, 1, Len(s) - 1))
    ELSE s

\* A mutation of Trim: only leading whitespace is removed.
TrimStartOnly(s) == TrimStart(s)

\* String.prototype.trim as applied by z.string().trim().
Trim(s) == TrimEnd(TrimStart(s))

\* The bound of .min(1, ...) on the course name.
NameMinLength == 1

COURSE_NAME_MESSAGE == "Please enter a course name"

\* The value a field's schema produces: z.string().trim() for the three
\* string fields, z.boolean() for the switches.
SchemaOutput(f, v) == IF f \in StringFields THEN Trim(v) ELSE v

\* A mutation of SchemaRejects: the minimum length is applied to the
\* untrimmed text.
SchemaRejectsRaw(f, v) == f = NAME /\ Len(v) < NameMinLength

\* Whether a field's schema rejects the raw value: only the course name has
\* a check, .min(1), and it is applied to the trimmed text.
SchemaRejects(f, v) == f = NAME /\ Len(SchemaOutput(f, v)) < NameMinLength

NoErrors == [f \in {} |-> ""]

NoValues == [f \in {} |-> FALSE]

\* zodResolver(schema): the raw values to {values, errors}.  Valid gives the
\* parsed values and no errors; Invalid gives no values and one message per
\* rejected field.
zodResolver(raw) ==
    LET rejected == {f \in Fields : SchemaRejects(f, raw[f])} IN
    IF rejected = {}
    THEN [values |-> [f \in Fields |-> SchemaOutput(f, raw[f])],
          errors |-> NoErrors]
    ELSE [values |-> NoValues,
          errors |-> [f \in rejected |-> COURSE_NAME_MESSAGE]]

\* ---------------------------------------------------------------- state
VARIABLES
    values,        \* the form's field values (raw, as typed)
    errors,        \* formState.errors: field -> message, for invalid fields
    isSubmitting,  \* formState.isSubmitting
    isSubmitted,   \* formState.isSubmitted
    onSuccess,     \* the onSuccess prop: "none", "ok" or the failure it raises
    subs,          \* the submissions, in the order of their submit events
    reports,       \* the toasts emitted, in order
    writes,        \* number of writes so far
    pending        \* the validations started by a write and not yet arrived

vars ==
    <<values, errors, isSubmitting, isSubmitted, onSuccess, subs, reports,
      writes, pending>>

\* What an invoked callback may raise; the error-resolution policy knows
\* the first and not the second.
Failures == {"known", "unknown"}

\* The statement of line 85 stands for the submit action: it returns or
\* raises.
ActionOutcomes == {"ok"} \cup Failures

\* The onSuccess prop: absent, returning, or raising a failure of its own.
OnSuccessProps == {"none", "ok", "unknown"}

NoArg == [f \in {} |-> FALSE]

Init ==
    /\ values = DEFAULT_VALUES
    /\ errors = NoErrors
    /\ isSubmitting = FALSE
    /\ isSubmitted = FALSE
    /\ onSuccess \in OnSuccessProps
    /\ subs = <<>>
    /\ reports = <<>>
    /\ writes = 0
    /\ pending = {}

\* ---------------------------------------------------------------- render
\* A mutation of formState_isSubmitting: the flag is read negated.
formState_isSubmitting_negated == ~isSubmitting

\* const { formState: { isSubmitting } } = methods: the flag as the latest
\* render read it.  The submit handler and the button use this value.
formState_isSubmitting == isSubmitting

\* <Button disabled={isSubmitting} type="submit">
ButtonDisabled == formState_isSubmitting

\* ---------------------------------------------------------------- submit
\* The positions of a submission that has set the flag and not yet reset it:
\* awaiting the resolver, or awaiting the invoked submit handler.
Submitting(pc) == pc \in {"validating", "awaitOnValid"}

\* A mutation of onSubmit: no guard.
onSubmitUnguarded(closureIsSubmitting, outcome, callback) ==
    IF outcome # "ok"
    THEN [invoked |-> TRUE, toast |-> FALSE, called |-> FALSE, threw |-> outcome]
    ELSE [invoked |-> TRUE, toast |-> TRUE, called |-> callback # "none",
          threw |-> IF callback \in Failures THEN callback ELSE "none"]

\* A mutation of onSubmit: the success toast follows the onSuccess callback.
onSubmitToastLast(closureIsSubmitting, outcome, callback) ==
    IF closureIsSubmitting
    THEN [invoked |-> FALSE, toast |-> FALSE, called |-> FALSE, threw |-> "none"]
    ELSE IF outcome # "ok"
    THEN [invoked |-> TRUE, toast |-> FALSE, called |-> FALSE, threw |-> outcome]
    ELSE [invoked |-> TRUE, toast |-> callback \notin Failures,
          called |-> callback # "none",
          threw |-> IF callback \in Failures THEN callback ELSE "none"]

\* onSubmit(formData): the guard on the closed-over flag, the action
\* (line 85), the success toast, the optional callback.  The result says
\* which of them ran and what was thrown.
onSubmit(closureIsSubmitting, outcome, callback) ==
    IF closureIsSubmitting
    THEN [invoked |-> FALSE, toast |-> FALSE, called |-> FALSE, threw |-> "none"]
    ELSE IF outcome # "ok"
    THEN [invoked |-> TRUE, toast |-> FALSE, called |-> FALSE, threw |-> outcome]
    ELSE [invoked |-> TRUE, toast |-> TRUE, called |-> callback # "none",
          threw |-> IF callback \in Failures THEN callback ELSE "none"]

\* handleSubmit's first step: isSubmitting as the submission starts, before
\* the resolver is invoked.
FlagOnSubmit == TRUE

SUCCESS_MESSAGE == "The new course has been created successfully."

\* A mutation of FlagAfterSubmit: the flag is not reset when the handler
\* threw.
FlagAfterSubmitKeptOnThrow(threw) == threw

\* handleSubmit's finally: isSubmitting after the submission, whether or not
\* the handler threw.
FlagAfterSubmit(threw) == FALSE

\* useResolveError: the message shown for a failure.
resolveError(failure) ==
    IF failure = "known" THEN "friendly message" ELSE "Something went wrong"

\* The submit event reaches the form: handleSubmit sets the flag and invokes
\* the resolver on the current values.  Besides its position (pc), the
\* closed-over flag (guard) and the values read (raw), a submission records
\* what it has done so far:
\*   idle           whether the flag was false at the event
\*   busy           whether an earlier submission had set the flag and not
\*                  yet reset it at the event
\*   duringAction   whether an earlier submission was awaiting its invoked
\*                  action at the event
\*   flagAtResolver the flag when the resolver was invoked
\*   attached       the errors its resolver result attached to the fields
\*   invoked, arg   how often it invoked the action, and with what
\*   called         how often it invoked the onSuccess callback
\*   raised         what raised in its handler: "none", "action", "onSuccess"
\*   failure        the failure thrown out of handleSubmit
\*   reset, endFlag whether it has reset the flag, and to what
StartSubmission ==
    /\ Len(subs) < MaxSubmits
    /\ isSubmitting' = FlagOnSubmit
    /\ subs' = Append(subs,
          [pc |-> "validating",
           guard |-> formState_isSubmitting,
           idle |-> ~isSubmitting,
           busy |-> \E j \in 1..Len(subs) : Submitting(subs[j].pc),
           duringAction |-> \E j \in 1..Len(subs) :
                               subs[j].pc = "awaitOnValid" /\ subs[j].invoked = 1,
           raw |-> values,
           flagAtResolver |-> isSubmitting',
           attached |-> NoErrors,
           invoked |-> 0,
           arg |-> NoArg,
           called |-> 0,
           raised |-> "none",
           failure |-> "none",
           reset |-> FALSE,
           endFlag |-> TRUE])
    /\ UNCHANGED <<values, errors, isSubmitted, onSuccess, reports, writes, pending>>

\* The user activates the submit button; a disabled button submits nothing.
ClickSubmit == ~ButtonDisabled /\ StartSubmission

\* A submit event dispatched on the form itself (form.requestSubmit()).
DispatchSubmit == StartSubmission

Report(kind, message, i, s) ==
    [kind |-> kind, message |-> message, sub |-> i, flag |-> isSubmitting,
     afterReset |-> s.reset]

\* The resolver's result arrives.
Resolve(i) ==
    /\ subs[i].pc = "validating"
    /\ LET s == subs[i]
           r == zodResolver(s.raw)
       IN
       /\ errors' = r.errors
       /\ IF r.errors # NoErrors
          THEN /\ isSubmitting' = FlagAfterSubmit(FALSE)
               /\ isSubmitted' = TRUE
               /\ subs' = [subs EXCEPT ![i] =
                     [s EXCEPT !.pc = "done",
                               !.attached = r.errors,
                               !.reset = ~FlagAfterSubmit(FALSE),
                               !.endFlag = FlagAfterSubmit(FALSE)]]
               /\ reports' = reports
          ELSE \E outcome \in (IF s.guard THEN {"ok"} ELSE ActionOutcomes) :
               LET o == onSubmit(s.guard, outcome, onSuccess)
                   ran == [s EXCEPT !.invoked = IF o.invoked THEN 1 ELSE 0,
                                    !.arg = IF o.invoked THEN r.values ELSE NoArg,
                                    !.called = IF o.called THEN 1 ELSE 0,
                                    !.raised =
                                        IF ~o.invoked THEN "none"
                                        ELSE IF outcome # "ok" THEN "action"
                                        ELSE IF o.threw # "none" THEN "onSuccess"
                                        ELSE "none"]
               IN
               /\ reports' = IF o.toast
                             THEN Append(reports, Report("success", SUCCESS_MESSAGE, i, s))
                             ELSE reports
               /\ IF o.threw = "none"
                  THEN /\ subs' = [subs EXCEPT ![i] = [ran EXCEPT !.pc = "awaitOnValid"]]
                       /\ UNCHANGED <<isSubmitting, isSubmitted>>
                  ELSE /\ isSubmitting' = FlagAfterSubmit(TRUE)
                       /\ isSubmitted' = TRUE
                       /\ subs' = [subs EXCEPT ![i] =
                             [ran EXCEPT !.pc = "rejected",
                                         !.failure = o.threw,
                                         !.reset = ~FlagAfterSubmit(TRUE),
                                         !.endFlag = FlagAfterSubmit(TRUE)]]
    /\ UNCHANGED <<values, onSuccess, writes, pending>>

\* The awaited submit handler has returned: handleSubmit's finally.
Settle(i) ==
    /\ subs[i].pc = "awaitOnValid"
    /\ isSubmitting' = FlagAfterSubmit(FALSE)
    /\ isSubmitted' = TRUE
    /\ subs' = [subs EXCEPT ![i] =
          [subs[i] EXCEPT !.pc = "done",
                          !.reset = ~FlagAfterSubmit(FALSE),
                          !.endFlag = FlagAfterSubmit(FALSE)]]
    /\ UNCHANGED <<values, errors, onSuccess, reports, writes, pending>>

\* handleSubmitForm's catch: the failure is resolved and reported.
Catch(i) ==
    /\ subs[i].pc = "rejected"
    /\ reports' = Append(reports,
          Report("failure", resolveError(subs[i].failure), i, subs[i]))
    /\ subs' = [subs EXCEPT ![i] = [subs[i] EXCEPT !.pc = "done"]]
    /\ UNCHANGED <<values, errors, isSubmitting, isSubmitted, onSuccess, writes,
                   pending>>

\* ---------------------------------------------------------------- write
\* A mutation of ShouldValidateOnChange: every change validates.
ShouldValidateOnChangeAlways(submitted) == TRUE

\* useForm without mode or reValidateMode: validation on submit until the
\* first submission has finished, on every change after it.
ShouldValidateOnChange(submitted) == submitted

\* The errors after one field alone has been validated again: the field
\* takes its error from the resolver's result, every other field keeps its
\* own.
Revalidated(errs, f, result) ==
    LET bad == (DOMAIN errs \ {f}) \cup ({f} \cap DOMAIN result)
    IN [g \in bad |-> IF g = f THEN result[g] ELSE errs[g]]

\* A field widget changes its field.  Where the change validates, the
\* resolver is invoked on the values just written and its result is awaited.
Write(f, v) ==
    /\ writes < MaxWrites
    /\ v # values[f]
    /\ values' = [values EXCEPT ![f] = v]
    /\ writes' = writes + 1
    /\ pending' = IF ShouldValidateOnChange(isSubmitted)
                  THEN pending \cup {[write |-> writes', field |-> f, value |-> v,
                                      result |-> zodResolver(values').errors]}
                  ELSE pending
    /\ UNCHANGED <<errors, isSubmitting, isSubmitted, onSuccess, subs, reports>>

WriteStep == \E f \in Fields : \E v \in FieldDomain(f) : Write(f, v)

\* The resolver's result for a written field arrives.  If the field still
\* holds the value that was validated, its error is set or cleared; if it
\* has been written again in the meantime the result is stale, and it is
\* applied or dropped (react-hook-form releases differ in this).
Revalidate(p) ==
    /\ p \in pending
    /\ pending' = pending \ {p}
    /\ \E apply \in (IF values[p.field] = p.value THEN {TRUE} ELSE BOOLEAN) :
          errors' = IF apply
                    THEN Revalidated(errors, p.field, p.result)
                    ELSE errors
    /\ UNCHANGED <<values, isSubmitting, isSubmitted, onSuccess, subs, reports,
                   writes>>

RevalidateStep == \E p \in pending : Revalidate(p)

PipelineStep == \E i \in 1..Len(subs) : Resolve(i) \/ Settle(i) \/ Catch(i)

Next ==
    \/ ClickSubmit
    \/ DispatchSubmit
    \/ WriteStep
    \/ RevalidateStep
    \/ PipelineStep

Spec == Init /\ [][Next]_vars

\* The event loop runs every pending continuation, of a submission and of
\* a validation started by a write.
FairSpec == Spec /\ WF_vars(PipelineStep) /\ WF_vars(RevalidateStep)

\* ---------------------------------------------------------------- claims
Subs == 1..Len(subs)

Done(i) == subs[i].pc = "done"

ReportsOf(i, kind) ==
    Cardinality({k \in 1..Len(reports) :
                    reports[k].sub = i /\ reports[k].kind = kind})

\* Every character of the text is whitespace (the empty text included).
AllWhitespace(s) == \A k \in 1..Len(s) : s[k] = " "

\* t is s without its leading and trailing whitespace, said without Trim:
\* t neither starts nor ends with whitespace, and s is t between two runs of
\* whitespace.
IsTrimmed(t, s) ==
    /\ t # <<>> => t[1] # " " /\ t[Len(t)] # " "
    /\ \E a \in 0..Len(s) :
          /\ a + Len(t) <= Len(s)
          /\ \A k \in 1..Len(t) : s[a + k] = t[k]
          /\ \A k \in 1..a : s[k] = " "
          /\ \A k \in (a + Len(t) + 1)..Len(s) : s[k] = " "

\* C1: a submit requested while the form is submitting never reaches the
\* action body; in particular a second submit requested while the first
\* submission is in flight invokes nothing, so the two submissions invoke
\* the action at most once, and exactly once when the first one validates.
C1_SecondSubmitIgnored ==
    /\ \A i \in Subs : ~subs[i].idle => subs[i].invoked = 0
    /\ Len(subs) >= 2 /\ subs[2].busy =>
          /\ subs[2].invoked = 0
          /\ subs[1].invoked + subs[2].invoked <= 1
          /\ Done(1) /\ ~AllWhitespace(subs[1].raw[NAME]) =>
                subs[1].invoked + subs[2].invoked = 1

\* C1 witness: the second submit came while the first submission was
\* awaiting its invoked handler, passed validation, and finished without
\* invoking the action; the first invoked it once.
C1_Witness ==
    /\ Len(subs) >= 2
    /\ subs[2].duringAction
    /\ ~AllWhitespace(subs[2].raw[NAME])
    /\ Done(1) /\ Done(2)
    /\ subs[1].invoked = 1 /\ subs[2].invoked = 0

\* C2 (as claimed): isSubmitting is true exactly when some submission has
\* set the flag and has not yet finished.
C2_GuardInvariant ==
    isSubmitting <=> \E i \in Subs : Submitting(subs[i].pc)

\* C3: under fair scheduling of the pending continuations, a form that is
\* submitting returns to idle, and every submission runs to its end: a
\* raised failure reaches the catch and is reported.
C3_EventuallyIdle ==
    /\ isSubmitting ~> ~isSubmitting
    /\ \A i \in 1..MaxSubmits :
          (Len(subs) >= i) ~> (Len(subs) >= i /\ Done(i))
    /\ [](\A i \in Subs :
            Done(i) /\ subs[i].raised # "none" => ReportsOf(i, "failure") = 1)

\* C3 witness: the form is idle again after a submission that failed
\* validation and a submission whose action raised.
C3_Witness ==
    /\ ~isSubmitting
    /\ \E i, j \in Subs :
          /\ Done(i) /\ subs[i].attached # NoErrors
          /\ Done(j) /\ subs[j].raised = "action"

\* C4 (as claimed): the flag is set when the resolver is invoked, and every
\* report, success or failure, is emitted after its submission has reset
\* the flag, in a state where isSubmitting is false.
C4_ResetBeforeEveryReport ==
    /\ \A i \in Subs : subs[i].flagAtResolver
    /\ \A k \in 1..Len(reports) : reports[k].afterReset /\ ~reports[k].flag

\* C5: a submission started while the form was idle, with a course name
\* that is not blank, invokes the action once with the validated values;
\* unless the action raises it emits one success report and invokes the
\* onSuccess callback when one is supplied; it ends by resetting the flag.
C5_ValidSubmission ==
    \A i \in Subs :
        subs[i].idle /\ ~AllWhitespace(subs[i].raw[NAME])
                     /\ subs[i].pc # "validating" =>
            /\ subs[i].invoked = 1
            /\ subs[i].arg = zodResolver(subs[i].raw).values
            /\ DOMAIN subs[i].arg = Fields
            /\ subs[i].attached = NoErrors
            /\ subs[i].raised # "action" =>
                  /\ ReportsOf(i, "success") = 1
                  /\ subs[i].called = (IF onSuccess = "none" THEN 0 ELSE 1)
            /\ Done(i) => subs[i].reset /\ ~subs[i].endFlag

\* C5 witness: such a submission has finished with one action invocation,
\* one success report, the callback invoked, and the form idle.
C5_Witness ==
    \E i \in Subs :
        /\ subs[i].idle /\ Done(i)
        /\ subs[i].invoked = 1 /\ subs[i].called = 1
        /\ ReportsOf(i, "success") = 1 /\ ReportsOf(i, "failure") = 0
        /\ ~isSubmitting

\* C6: a submission whose course name is empty or whitespace only attaches
\* the course-name message to the name field and to no other field, invokes
\* nothing, reports nothing, and ends by resetting the flag.
C6_BlankNameInvalid ==
    \A i \in Subs :
        AllWhitespace(subs[i].raw[NAME]) /\ subs[i].pc # "validating" =>
            /\ subs[i].attached = [f \in {NAME} |-> COURSE_NAME_MESSAGE]
            /\ subs[i].invoked = 0 /\ subs[i].called = 0
            /\ ReportsOf(i, "success") = 0 /\ ReportsOf(i, "failure") = 0
            /\ Done(i) /\ subs[i].reset /\ ~subs[i].endFlag

\* C6 witness: a submission with a whitespace-only course name has finished
\* and its error is the one shown.
C6_Witness ==
    \E i \in Subs :
        /\ subs[i].raw[NAME] = <<" ", " ">>
        /\ Done(i)
        /\ errors = [f \in {NAME} |-> COURSE_NAME_MESSAGE]
        /\ ~isSubmitting

C8_ActionFailure ==
    /\ [](\A i \in Subs :
            subs[i].raised = "action" =>
                /\ subs[i].invoked = 1 /\ subs[i].called = 0
                /\ ReportsOf(i, "success") = 0
                /\ subs[i].failure \in Failures
                /\ subs[i].reset /\ ~subs[i].endFlag
                /\ ReportsOf(i, "failure") = (IF Done(i) THEN 1 ELSE 0)
                /\ \A k \in 1..Len(reports) :
                      reports[k].sub = i =>
                          reports[k].message = resolveError(subs[i].failure))
    /\ [][values' # values => writes' = writes + 1 /\ subs' = subs]_vars

\* C8 witness: after a submission whose action raised an unrecognised
\* failure, the generic message has been reported, the form is idle and
\* holds the values that were submitted.
C8_Witness ==
    \E i \in Subs :
        /\ subs[i].raised = "action" /\ subs[i].failure = "unknown"
        /\ Done(i)
        /\ \E k \in 1..Len(reports) :
              /\ reports[k].sub = i
              /\ reports[k].message = "Something went wrong"
        /\ ~isSubmitting
        /\ values = subs[i].raw
        /\ values # DEFAULT_VALUES

\* The fields whose value a step changes.
Written == {f \in Fields : values'[f] # values[f]}

\* What a write leaves alone, in every state of the form.
WriteFrame ==
    /\ Cardinality(Written) = 1
    /\ UNCHANGED <<errors, isSubmitting, isSubmitted, onSuccess, subs, reports>>

\* The only thing besides a submission that changes an error: the arrival
\* of a validation started by a write.
Arrival == pending' # pending /\ writes' = writes

\* C9 (as claimed): a write changes one field value and nothing else, and
\* it starts no validation; so the errors change with a submission only.
C9_WriteNeverValidates ==
    /\ [][writes' # writes => WriteFrame /\ pending' = pending]_vars
    /\ [][errors' # errors => subs' # subs]_vars

\* C9 (amended): a write is possible whether or not a submission is in
\* flight and changes one field value; the write itself leaves the errors,
\* the flag, the submissions and the reports alone.  Until a submission has
\* finished it starts no validation; from then on it starts one validation,
\* of the written field.  When the result arrives it changes nothing but
\* that field's error, and if the field still holds the validated value the
\* error is set or cleared to fit it.
C9_WriteRevalidatesAfterSubmit ==
    /\ [](writes < MaxWrites => ENABLED WriteStep)
    /\ [][writes' # writes =>
            /\ WriteFrame
            /\ ~isSubmitted => pending' = pending
            /\ isSubmitted =>
                  \E p \in pending' \ pending :
                      /\ pending' = pending \cup {p}
                      /\ Written = {p.field}
                      /\ p.value = values'[p.field]]_vars
    /\ [][Arrival =>
            \E p \in pending :
                /\ pending' = pending \ {p}
                /\ UNCHANGED <<values, isSubmitting, isSubmitted, subs, reports>>
                /\ \A f \in Fields \ {p.field} :
                      /\ (f \in DOMAIN errors') <=> (f \in DOMAIN errors)
                      /\ f \in DOMAIN errors => errors'[f] = errors[f]
                /\ values[p.field] = p.value =>
                      ((p.field \in DOMAIN errors')
                          <=> (p.field = NAME /\ AllWhitespace(values[NAME])))]_vars
    /\ [][errors' # errors => subs' # subs \/ Arrival]_vars

\* C9 witness: the only submission failed on a blank course name and has
\* finished; the name has been written, the validation that write started
\* has arrived, and it has cleared the error.
C9_Witness ==
    /\ Len(subs) = 1 /\ Done(1)
    /\ subs[1].attached # NoErrors
    /\ writes = 1
    /\ pending = {}
    /\ ~AllWhitespace(values[NAME])
    /\ errors = NoErrors

\* C10 (as claimed): a submission emits at most one report.
C10_AtMostOneReport ==
    \A i \in Subs : ReportsOf(i, "success") + ReportsOf(i, "failure") <= 1

\* C10 (amended): a submission emits at most one success report and at most
\* one failure report, and both exactly when the onSuccess callback raised
\* after the success report.
C10_OneReportOfEachKind ==
    \A i \in Subs :
        /\ ReportsOf(i, "success") <= 1
        /\ ReportsOf(i, "failure") <= 1
        /\ Done(i) =>
              ((ReportsOf(i, "success") = 1 /\ ReportsOf(i, "failure") = 1)
                  <=> subs[i].raised = "onSuccess")
        /\ subs[i].raised = "onSuccess" => ReportsOf(i, "success") = 1

\* C10 witness: a finished submission has emitted a success report and then
\* a failure report for the failure its onSuccess callback raised.
C10_Witness ==
    \E i \in Subs :
        /\ Done(i) /\ subs[i].raised = "onSuccess"
        /\ \E k, m \in 1..Len(reports) :
              /\ k < m
              /\ reports[k].sub = i /\ reports[k].kind = "success"
              /\ reports[m].sub = i /\ reports[m].kind = "failure"

====
